---------------------------- MODULE Spec2Model ----------------------------
(***************************************************************************)
(* check_postfix_blocked.py: a Nagios plugin that scans a Postfix log for  *)
(* bounced or deferred deliveries, collects the queue ids of all of them   *)
(* (blocked) and of those rejected as spam (worrisome), and reports a      *)
(* status by comparing the worrisome count with two thresholds.            *)
(*                                                                         *)
(* Log lines are strings; the two regular expressions are evaluated        *)
(* character by character.  Python values that may be None are encoded as  *)
(* sequences: None is <<>> and a value v is <<v>>.                         *)
(***************************************************************************)
EXTENDS Integers, Sequences, FiniteSets, TLC

\* ------------------------------------------------------------------ bounds

\* The longest input: the number of lines the file handle yields at most.
MaxLines == 3

\* The largest threshold value given to --warn or --crit.
MaxThreshold == 2

\* The most calls of report() a client makes in a row.
MaxReports == 2

\* ------------------------------------------------------- program constants

OK == 0

WARNING == 1

CRITICAL == 2

UNKNOWN == 3

\* Python's None, and a value that is set.
None == <<>>

Some(v) == <<v>>

Val(o) == o[1]

\* An option of type int as optparse leaves it: None when not supplied.
OptInt == {None} \cup {Some(n) : n \in 0..MaxThreshold}

\* The interpreters "#!/usr/bin/env python" may resolve to: Python 2 or 3.
PyVersions == {2, 3}

\* ------------------------------------------------------------- characters

NL == "\n"

Ch(s, i) == SubSeq(s, i, i)

DigitChars == {Ch("0123456789", i) : i \in 1..10}

UpperChars == {Ch("ABCDEFGHIJKLMNOPQRSTUVWXYZ", i) : i \in 1..26}

LowerChars == {Ch("abcdefghijklmnopqrstuvwxyz", i) : i \in 1..26}

\* The class [0-9A-Za-z].
AlnumChars == DigitChars \cup UpperChars \cup LowerChars

\* re.IGNORECASE compares characters by their lower-case form.
LowerCh(c) ==
    IF c \in UpperChars
    THEN LET i == CHOOSE j \in 1..26 : Ch("ABCDEFGHIJKLMNOPQRSTUVWXYZ", j) = c
         IN  Ch("abcdefghijklmnopqrstuvwxyz", i)
    ELSE c

\* The literal lit stands in s at position i.
At(s, i, lit) ==
    /\ i >= 1
    /\ i + Len(lit) - 1 <= Len(s)
    /\ SubSeq(s, i, i + Len(lit) - 1) = lit

\* The literal lit (lower case) stands in s at position i, case ignored.
AtNoCase(s, i, lit) ==
    /\ i >= 1
    /\ i + Len(lit) - 1 <= Len(s)
    /\ \A t \in 0..(Len(lit) - 1) : LowerCh(Ch(s, i + t)) = Ch(lit, t + 1)

\* The position after the longest run of characters of class cls from i on.
RECURSIVE RunEnd(_, _, _)
RunEnd(s, i, cls) ==
    IF i <= Len(s) /\ Ch(s, i) \in cls THEN RunEnd(s, i + 1, cls) ELSE i

\* ".*" spans s[from..to]: "." matches any character but a newline.
DotStar(s, from, to) == \A t \in from..to : Ch(s, t) # NL


\* ------------------------------------------------------ the two patterns

\* bounced_re with the status vocabulary dropped (", status=\w+ "): a
\* faulty variant that takes any status value for a delivery failure.
bounced_re_at_anyStatus(s, i) ==
    LET a == i + Len(" postfix/smtp[")
        b == RunEnd(s, a, DigitChars)
        c == b + Len("]: ")
        d == RunEnd(s, c, AlnumChars)
        e == d + Len(": ")
    IN  /\ At(s, i, " postfix/smtp[")
        /\ b > a
        /\ At(s, b, "]: ")
        /\ d > c
        /\ At(s, d, ": ")
        /\ \E j \in e..Len(s) :
              /\ DotStar(s, e, j - 1)
              /\ At(s, j, ", status=")
              /\ RunEnd(s, j + Len(", status="), AlnumChars) > j + Len(", status=")
              /\ At(s, RunEnd(s, j + Len(", status="), AlnumChars), " ")

\* bounced_re matched at position i of line s:
\*   " postfix/smtp\[\d+\]: ([0-9A-Za-z]+): .*, status=(?:bounced|deferred) "
\* \d+ and [0-9A-Za-z]+ take their longest runs: the character each is
\* followed by ("]", ":") is outside its class, so no shorter run matches.
bounced_re_at(s, i) ==
    LET a == i + Len(" postfix/smtp[")
        b == RunEnd(s, a, DigitChars)
        c == b + Len("]: ")
        d == RunEnd(s, c, AlnumChars)
        e == d + Len(": ")
    IN  /\ At(s, i, " postfix/smtp[")
        /\ b > a
        /\ At(s, b, "]: ")
        /\ d > c
        /\ At(s, d, ": ")
        /\ \E j \in e..Len(s) :
              /\ DotStar(s, e, j - 1)
              /\ \/ At(s, j, ", status=bounced ")
                 \/ At(s, j, ", status=deferred ")

\* group(1) of bounced_re matched at position i: the queue id.
bounced_re_group1(s, i) ==
    LET c == RunEnd(s, i + Len(" postfix/smtp["), DigitChars) + Len("]: ")
    IN  SubSeq(s, c, RunEnd(s, c, AlnumChars) - 1)

\* m = re.search(bounced_re, line): the leftmost match, or no match.
bounced_re_search(s) ==
    LET hits == {i \in 1..Len(s) : bounced_re_at(s, i)}
    IN  IF hits = {}
        THEN [matched |-> FALSE, queue_id |-> ""]
        ELSE LET i == CHOOSE h \in hits : \A g \in hits : h <= g
             IN  [matched |-> TRUE, queue_id |-> bounced_re_group1(s, i)]

\* One alternative of site_rejection_re, " said: <code> .*<word>", at i.
rejection_at(s, i, head, word) ==
    /\ AtNoCase(s, i, head)
    /\ \E j \in (i + Len(head))..Len(s) :
          /\ DotStar(s, i + Len(head), j - 1)
          /\ AtNoCase(s, j, word)

\* re.search(site_rejection_re, line): the three alternatives joined by "|",
\* compiled with re.IGNORECASE.
site_rejection_re_search(s) ==
    \E i \in 1..Len(s) :
        \/ rejection_at(s, i, " said: 550 ", "spam")
        \/ rejection_at(s, i, " said: 550 ", "blocked")
        \/ rejection_at(s, i, " said: 451 ", "busy")

\* ------------------------------------------------------------ the input

\* The lines a mail log may hold, as "for line in self.fh" yields them
\* (each with its newline):
\*   1 a bounce rejected as spam                        (queue id E491D)
\*   2 a plain bounce of the same message               (queue id E491D)
\*   3 a deferral by a busy server, reply in capitals   (queue id B60EA)
\*   4 a delivery that was sent, its reply quoting a rejection signature
\*   5 a bounce whose reply text quotes "status=sent"   (queue id C3F1F)
\*   6 a queue manager line: a deferred status without the smtp tag
Lines == <<
    "Mar 12 mx postfix/smtp[9978]: E491D: to=<a@mail.ru>, dsn=5.0.0, status=bounced (host mxs said: 550 spam message rejected)\n",
    "Mar 12 mx postfix/smtp[9978]: E491D: to=<b@x.org>, dsn=5.1.1, status=bounced (host mx said: 550 5.1.1 mailbox unavailable)\n",
    "Mar 12 mx postfix/smtp[25122]: B60EA: to=<c@hotmail.com>, dsn=4.7.500, status=deferred (host olc Said: 451 4.7.500 Server BUSY)\n",
    "Mar 12 mx postfix/smtp[101]: C3F1F: to=<d@y.net>, dsn=2.0.0, status=sent (250 ok, peer said: 550 no spam seen)\n",
    "Mar 12 mx postfix/smtp[101]: C3F1F: to=<e@z.com>, dsn=5.7.1, status=bounced (host z said: 554 status=sent refused)\n",
    "Mar 12 mx postfix/qmgr[77]: B60EA: from=<f@w.io>, status=deferred (host w said: 550 blocked)\n"
>>

LineNos == 1..Len(Lines)

\* What the two searches find in each line of the log (evaluated once).
Bounced == [k \in LineNos |-> bounced_re_search(Lines[k])]

Rejected == [k \in LineNos |-> site_rejection_re_search(Lines[k])]


\* ------------------------------------------------------- PostfixBounces

VARIABLES
    py,          \* the interpreter's major version
    warn,        \* self.warn (options.warn): None or an integer
    crit,        \* self.crit (options.crit): None or an integer
    consumed,    \* the numbers of the lines self.fh has yielded so far
    processed,   \* self.processed
    blocked,     \* the keys of self.blocked
    worrisome,   \* the keys of self.worrisome
    exit_code,   \* self.exit_code
    exit_note,   \* self.exit_note
    pc,          \* where the caller of the object stands
    reports,     \* the calls of report() made in a row, none since the
                 \* object was constructed or process() was called
    err,         \* the exception the last call raised, or "none"
    stdout,      \* the lines written to standard output
    ret          \* the value main() returned

vars == <<py, warn, crit, consumed, processed, blocked, worrisome,
          exit_code, exit_note, pc, reports, err, stdout, ret>>

\* self.blocked after one pass of the loop body over line k.
\* Faulty variants of the insertion into self.blocked: one that skips it
\* for a rejected line, one that overwrites the dictionary.
BlockedAfter_unlessRejected(b, k) ==
    IF Bounced[k].matched /\ ~Rejected[k] THEN b \cup {Bounced[k].queue_id} ELSE b

BlockedAfter_replace(b, k) ==
    IF Bounced[k].matched THEN {Bounced[k].queue_id} ELSE b

BlockedAfter(b, k) ==
    IF Bounced[k].matched THEN b \cup {Bounced[k].queue_id} ELSE b

\* self.worrisome after one pass of the loop body over line k.
\* A faulty variant that skips the test of site_rejection_re.
WorrisomeAfter_everyBounce(w, k) ==
    IF Bounced[k].matched THEN w \cup {Bounced[k].queue_id} ELSE w

WorrisomeAfter(w, k) ==
    IF Bounced[k].matched /\ Rejected[k] THEN w \cup {Bounced[k].queue_id} ELSE w

\* A faulty variant of the comparison: ">" for ">=".
GreaterEqual_strict(count, threshold) ==
    IF threshold # None
    THEN (IF count > Val(threshold) THEN "True" ELSE "False")
    ELSE (IF py = 2 THEN "True" ELSE "TypeError")

\* "count >= threshold" as the interpreter evaluates it.  Python 2 orders
\* None below every integer; Python 3 raises TypeError.
GreaterEqual(count, threshold) ==
    IF threshold # None
    THEN (IF count >= Val(threshold) THEN "True" ELSE "False")
    ELSE (IF py = 2 THEN "True" ELSE "TypeError")

\* report()'s if/elif/else over the thresholds: the exit code, or that a
\* comparison raised TypeError before any code was assigned.
StatusFor(count) ==
    LET c == GreaterEqual(count, crit)
    IN  IF c = "TypeError" THEN [raised |-> TRUE, code |-> UNKNOWN]
        ELSE IF c = "True" THEN [raised |-> FALSE, code |-> CRITICAL]
        ELSE LET w == GreaterEqual(count, warn)
             IN  IF w = "TypeError" THEN [raised |-> TRUE, code |-> UNKNOWN]
                 ELSE IF w = "True" THEN [raised |-> FALSE, code |-> WARNING]
                 ELSE [raised |-> FALSE, code |-> OK]

status_string(code) ==
    CASE code = OK       -> "OK"
      [] code = WARNING  -> "WARN"
      [] code = CRITICAL -> "CRITICAL"
      [] code = UNKNOWN  -> "UNKNOWN"

\* "%d" of a non-negative integer: its decimal digits.
RECURSIVE FormatD(_)
FormatD(n) ==
    IF n < 10 THEN Ch("0123456789", n + 1)
    ELSE FormatD(n \div 10) \o Ch("0123456789", (n % 10) + 1)

\* "%(status)s %(worrisome)d worrisome | blocked=%(blocked)d worrisome=%(worrisome)d"
\* A faulty variant that formats the blocked count in the leading place.
FormatNote_swapped(code, blocked_count, worrisome_count) ==
    status_string(code) \o " " \o FormatD(blocked_count) \o " worrisome | blocked="
        \o FormatD(blocked_count) \o " worrisome=" \o FormatD(worrisome_count)

FormatNote(code, blocked_count, worrisome_count) ==
    status_string(code) \o " " \o FormatD(worrisome_count) \o " worrisome | blocked="
        \o FormatD(blocked_count) \o " worrisome=" \o FormatD(worrisome_count)

\* "%s No mail log analysis to report on"
NoAnalysisNote(code) == status_string(code) \o " No mail log analysis to report on"

\* What a call of report() leaves in exit_code and exit_note, and the
\* exception it raises, when self.processed is done.
\* A faulty variant that compares with the thresholds before it tests
\* self.processed.
ReportOutcome_thresholdsFirst(done) ==
    LET blocked_count   == Cardinality(blocked)
        worrisome_count == Cardinality(worrisome)
        st              == StatusFor(worrisome_count)
    IN  IF st.raised
        THEN [err |-> "TypeError", code |-> exit_code, note |-> exit_note]
        ELSE IF ~done
        THEN [err |-> "none", code |-> Some(UNKNOWN),
              note |-> Some(NoAnalysisNote(UNKNOWN))]
        ELSE [err |-> "none", code |-> Some(st.code),
              note |-> Some(FormatNote(st.code, blocked_count, worrisome_count))]

ReportOutcome(done) ==
    LET blocked_count   == Cardinality(blocked)
        worrisome_count == Cardinality(worrisome)
        st              == StatusFor(worrisome_count)
    IN  IF ~done
        THEN [err |-> "none", code |-> Some(UNKNOWN),
              note |-> Some(NoAnalysisNote(UNKNOWN))]
        ELSE IF st.raised
        THEN [err |-> "TypeError", code |-> exit_code, note |-> exit_note]
        ELSE [err |-> "none", code |-> Some(st.code),
              note |-> Some(FormatNote(st.code, blocked_count, worrisome_count))]

\* __init__: the object as constructed with the given thresholds, nothing
\* read yet and nothing reported.  self.debug only echoes matched lines to
\* stderr and is left out.
Constructed ==
    /\ py \in PyVersions
    /\ warn \in OptInt
    /\ crit \in OptInt
    /\ consumed = <<>>
    /\ processed = FALSE
    /\ blocked = {}
    /\ worrisome = {}
    /\ exit_code = None
    /\ exit_note = None
    /\ reports = 0
    /\ err = "none"
    /\ stdout = <<>>
    /\ ret = None

\* ---------------------------------------- the object, called by a client

Init ==
    /\ Constructed
    /\ pc = "NotStarted"

\* process() is called: the patterns are compiled and the loop is entered.
Process ==
    /\ pc = "NotStarted"
    /\ pc' = "Scanning"
    /\ reports' = 0
    /\ err' = "none"
    /\ UNCHANGED <<py, warn, crit, consumed, processed, blocked, worrisome,
                   exit_code, exit_note, stdout, ret>>

\* One pass of "for line in self.fh": the file yields line k.
ProcessLine(k) ==
    /\ pc = "Scanning"
    /\ Len(consumed) < MaxLines
    /\ consumed' = Append(consumed, k)
    /\ blocked' = BlockedAfter(blocked, k)
    /\ worrisome' = WorrisomeAfter(worrisome, k)
    /\ UNCHANGED <<py, warn, crit, processed, exit_code, exit_note, pc,
                   reports, err, stdout, ret>>

\* The file is exhausted: the loop ends and process() returns.
ProcessEnd ==
    /\ pc = "Scanning"
    /\ processed' = TRUE
    /\ pc' = "Completed"
    /\ UNCHANGED <<py, warn, crit, consumed, blocked, worrisome, exit_code,
                   exit_note, reports, err, stdout, ret>>

\* Reading the file raises: the exception leaves process() from the loop.
ProcessFail ==
    /\ pc = "Scanning"
    /\ pc' = "Failed"
    /\ err' = "IOError"
    /\ UNCHANGED <<py, warn, crit, consumed, processed, blocked, worrisome,
                   exit_code, exit_note, reports, stdout, ret>>

\* report() is called while process() is not running.
Report ==
    /\ pc \in {"NotStarted", "Completed", "Failed"}
    /\ reports < MaxReports
    /\ LET out == ReportOutcome(processed)
       IN  /\ exit_code' = out.code
           /\ exit_note' = out.note
           /\ err' = out.err
    /\ reports' = reports + 1
    /\ UNCHANGED <<py, warn, crit, consumed, processed, blocked, worrisome,
                   pc, stdout, ret>>

Next ==
    \/ Process
    \/ \E k \in LineNos : ProcessLine(k)
    \/ ProcessEnd
    \/ ProcessFail
    \/ Report

Spec == Init /\ [][Next]_vars

\* ------------------------------------------------------------------ main

\* "not options.x": None and 0 are both false.
Not(o) == IF o = None THEN TRUE ELSE Val(o) = 0

\* What parser.print_help() writes.
HelpText == "Usage: check_postfix_blocked.py [options]"

\* After parser.parse_args(): options.warn and options.crit are the values
\* given on the command line, None for an option not given.
MainInit ==
    /\ Constructed
    /\ pc = "main"

\* Neither option counts as given: print the help and return UNKNOWN.
MainUsage ==
    /\ pc = "main"
    /\ Not(warn) /\ Not(crit)
    /\ stdout' = Append(stdout, HelpText)
    /\ ret' = Some(UNKNOWN)
    /\ pc' = "returned"
    /\ UNCHANGED <<py, warn, crit, consumed, processed, blocked, worrisome,
                   exit_code, exit_note, reports, err>>

\* open() succeeds: the object is constructed and process() is called.
MainOpen ==
    /\ pc = "main"
    /\ ~(Not(warn) /\ Not(crit))
    /\ pc' = "Scanning"
    /\ reports' = 0
    /\ UNCHANGED <<py, warn, crit, consumed, processed, blocked, worrisome,
                   exit_code, exit_note, err, stdout, ret>>

\* open() raises: the exception leaves main().
MainOpenFail ==
    /\ pc = "main"
    /\ ~(Not(warn) /\ Not(crit))
    /\ pc' = "raised"
    /\ err' = "IOError"
    /\ UNCHANGED <<py, warn, crit, consumed, processed, blocked, worrisome,
                   exit_code, exit_note, reports, stdout, ret>>

\* A faulty variant in which the read error ends the loop like the end of
\* the file, so that main() goes on to report what was counted.
MainReadFail_asEndOfFile ==
    /\ pc = "Scanning"
    /\ processed' = TRUE
    /\ exit_code' = ReportOutcome(TRUE).code
    /\ exit_note' = ReportOutcome(TRUE).note
    /\ stdout' = IF ReportOutcome(TRUE).note = None THEN stdout
                 ELSE Append(stdout, Val(ReportOutcome(TRUE).note))
    /\ ret' = ReportOutcome(TRUE).code
    /\ pc' = "returned"
    /\ err' = "IOError"
    /\ reports' = reports + 1
    /\ UNCHANGED <<py, warn, crit, consumed, blocked, worrisome>>

\* Reading the file raises inside process(): nothing in main() catches it.
MainReadFail ==
    /\ pc = "Scanning"
    /\ pc' = "raised"
    /\ err' = "IOError"
    /\ UNCHANGED <<py, warn, crit, consumed, processed, blocked, worrisome,
                   exit_code, exit_note, reports, stdout, ret>>

\* The file is exhausted: process() returns, then report(), print and
\* return; a TypeError raised in report() leaves main() instead.
MainFinish ==
    /\ pc = "Scanning"
    /\ processed' = TRUE
    /\ reports' = reports + 1
    /\ LET out == ReportOutcome(TRUE)
       IN  /\ exit_code' = out.code
           /\ exit_note' = out.note
           /\ err' = out.err
           /\ IF out.err = "none"
              THEN /\ stdout' = Append(stdout, Val(out.note))
                   /\ ret' = out.code
                   /\ pc' = "returned"
              ELSE /\ pc' = "raised"
                   /\ UNCHANGED <<stdout, ret>>
    /\ UNCHANGED <<py, warn, crit, consumed, blocked, worrisome>>

MainNext ==
    \/ MainUsage
    \/ MainOpen
    \/ MainOpenFail
    \/ \E k \in LineNos : ProcessLine(k)
    \/ MainReadFail
    \/ MainFinish

MainSpec == MainInit /\ [][MainNext]_vars

\* ---------------------------------------------------------- properties

\* The lines read so far, as a set.
ConsumedLines == {consumed[i] : i \in 1..Len(consumed)}

\* The literal lit occurs somewhere in s.
Contains(s, lit) == \E i \in 1..Len(s) : At(s, i, lit)

\* The lines that carry the text "status=sent".
HasStatusSent == [k \in LineNos |-> Contains(Lines[k], "status=sent")]

\* The lines that carry a bounced or deferred status field.
HasFailureStatus ==
    [k \in LineNos |-> \/ Contains(Lines[k], ", status=bounced ")
                       \/ Contains(Lines[k], ", status=deferred ")]

\* The name of a status level in a note.
LevelName(code) ==
    IF code = OK THEN "OK"
    ELSE IF code = WARNING THEN "WARN"
    ELSE IF code = CRITICAL THEN "CRITICAL"
    ELSE "UNKNOWN"

\* The note of the output formatting contract for a level and two counts.
ContractNote(level, blocked_count, worrisome_count) ==
    level \o " " \o ToString(worrisome_count) \o " worrisome | blocked="
          \o ToString(blocked_count) \o " worrisome=" \o ToString(worrisome_count)

\* A note has the contract's form for some level and some counts.
HasContractForm(note) ==
    \E level \in {"OK", "WARN", "CRITICAL", "UNKNOWN"} :
        \E b \in 0..MaxLines, w \in 0..MaxLines :
            note = ContractNote(level, b, w)

\* C1: once process() has completed, report() with integer thresholds sets
\* Critical if the worrisome count is at least crit, else Warning if it is
\* at least warn, else Ok, whatever the order of the two thresholds.
C1_ThresholdPrecedence ==
    (processed /\ reports >= 1 /\ warn # None /\ crit # None) =>
        LET w == Cardinality(worrisome)
        IN  /\ err = "none"
            /\ exit_code = Some(IF w >= Val(crit) THEN CRITICAL
                                ELSE IF w >= Val(warn) THEN WARNING
                                ELSE OK)

\* A report whose worrisome count equals warn, below crit: Warning.
C1_Witness ==
    /\ processed /\ reports >= 1 /\ warn # None /\ crit # None
    /\ Cardinality(worrisome) = Val(warn)
    /\ Cardinality(worrisome) < Val(crit)
    /\ Cardinality(worrisome) >= 1
    /\ exit_code = Some(WARNING)

\* C2: in every state the Worrisome Set is a subset of the Blocked Set, so
\* the worrisome count never exceeds the blocked count.
C2_WorrisomeSubsetOfBlocked ==
    /\ worrisome \subseteq blocked
    /\ Cardinality(worrisome) <= Cardinality(blocked)

\* Mid-scan, with a worrisome message and a blocked one that is not.
C2_Witness ==
    /\ pc = "Scanning"
    /\ worrisome # {}
    /\ Cardinality(blocked) > Cardinality(worrisome)

\* C3: after process() the Blocked Set holds the distinct queue ids of the
\* lines read that match the delivery-failure pattern, and the Worrisome
\* Set those of the lines that match it and a rejection signature too; both
\* depend on the set of lines read only, not on their order or repetition.
C3_CountsAreDistinctIdentifiers ==
    processed =>
        LET failures   == {k \in ConsumedLines : Bounced[k].matched}
            rejections == {k \in failures : Rejected[k]}
            ids(ks)    == {Bounced[k].queue_id : k \in ks}
        IN  /\ blocked = ids(failures)
            /\ worrisome = ids(rejections)
            /\ Cardinality(blocked) = Cardinality(ids(failures))
            /\ Cardinality(worrisome) = Cardinality(ids(rejections))

\* A completed scan of a plain bounce first and a spam bounce later for the
\* same queue id, and of a line with a rejection signature only.
C3_Witness ==
    /\ processed
    /\ \E i, j \in 1..Len(consumed) :
          /\ i < j
          /\ Bounced[consumed[i]].matched /\ ~Rejected[consumed[i]]
          /\ Bounced[consumed[j]].matched /\ Rejected[consumed[j]]
          /\ Bounced[consumed[i]].queue_id = Bounced[consumed[j]].queue_id
    /\ \E i \in 1..Len(consumed) :
          ~Bounced[consumed[i]].matched /\ Rejected[consumed[i]]
    /\ Cardinality(blocked) = 1
    /\ Cardinality(worrisome) = 1

\* C4 as claimed: reading a line that contains "status=sent" leaves both
\* sets unchanged, whatever else the line holds.
C4_StatusSentNeverCounts ==
    [][\A k \in LineNos :
          (consumed' = Append(consumed, k) /\ HasStatusSent[k])
              => UNCHANGED <<blocked, worrisome>>]_vars

\* C4 as amended: reading a line that contains "status=sent" and no bounced
\* or deferred status field leaves both sets unchanged.
C4_SentWithoutFailureStatusNeverCounts ==
    [][\A k \in LineNos :
          (consumed' = Append(consumed, k) /\ HasStatusSent[k]
                                           /\ ~HasFailureStatus[k])
              => UNCHANGED <<blocked, worrisome>>]_vars

\* A sent line (one with a rejection signature) read after a bounce.
C4_Witness ==
    /\ Len(consumed) >= 2
    /\ HasStatusSent[consumed[Len(consumed)]]
    /\ ~HasFailureStatus[consumed[Len(consumed)]]
    /\ Rejected[consumed[Len(consumed)]]
    /\ Cardinality(blocked) = 1
    /\ worrisome = {}

\* C5 as claimed: every note report() produces, in any state, has the form
\* "<LEVEL> <w> worrisome | blocked=<b> worrisome=<w>".
C5_EveryNoteHasContractForm ==
    (reports >= 1 /\ err = "none") => HasContractForm(Val(exit_note))

\* C5 as amended: after a completed scan the note has that form, with the
\* level OK, WARN or CRITICAL of the exit code and the sizes of the two
\* sets; before it the note is "UNKNOWN No mail log analysis to report on".
C5_NoteFormByState ==
    (reports >= 1 /\ err = "none") =>
        IF processed
        THEN /\ exit_code \in {Some(OK), Some(WARNING), Some(CRITICAL)}
             /\ exit_note = Some(ContractNote(LevelName(Val(exit_code)),
                                              Cardinality(blocked),
                                              Cardinality(worrisome)))
        ELSE /\ exit_code = Some(UNKNOWN)
             /\ exit_note = Some("UNKNOWN No mail log analysis to report on")

\* A report on two blocked messages of which one is worrisome.
C5_Witness ==
    /\ processed /\ reports >= 1 /\ err = "none"
    /\ Cardinality(blocked) = 2
    /\ Cardinality(worrisome) = 1

\* C8: report() on an object whose process() was never called gives
\* Unknown and the no-analysis note, raises nothing whatever the thresholds
\* (unset ones included), and leaves both sets empty and processed false.
C8_ReportBeforeProcess ==
    (pc = "NotStarted" /\ reports >= 1) =>
        /\ err = "none"
        /\ exit_code = Some(UNKNOWN)
        /\ exit_note = Some("UNKNOWN No mail log analysis to report on")
        /\ blocked = {} /\ worrisome = {}
        /\ ~processed

\* report() before process() under Python 3 with no critical threshold.
C8_Witness ==
    /\ pc = "NotStarted" /\ reports >= 1
    /\ crit = None /\ py = 3
    /\ exit_code = Some(UNKNOWN)

\* C10: both sets start empty and only grow, by the queue id of the line
\* just read; processed turns true only when the input has ended, and no
\* line is read after; once it is true report() changes neither the sets
\* nor processed, and a repeated report() repeats its code and note.
C10_GrowOnlyThenFrozen ==
    /\ blocked = {} /\ worrisome = {} /\ ~processed
    /\ [][/\ blocked \subseteq blocked'
          /\ worrisome \subseteq worrisome'
          /\ (blocked' # blocked \/ worrisome' # worrisome) =>
                /\ pc = "Scanning"
                /\ \E k \in LineNos :
                      /\ consumed' = Append(consumed, k)
                      /\ Bounced[k].matched
                      /\ blocked' = blocked \cup {Bounced[k].queue_id}
                      /\ worrisome' \subseteq worrisome \cup {Bounced[k].queue_id}
          /\ (processed' /\ ~processed) =>
                (pc = "Scanning" /\ pc' = "Completed" /\ consumed' = consumed)
          /\ processed =>
                (processed' /\ UNCHANGED <<blocked, worrisome, consumed>>)
          /\ (processed /\ reports >= 1 /\ reports' = reports + 1) =>
                UNCHANGED <<exit_code, exit_note, err>>]_vars

\* A second report() in a row on a completed scan that found something.
C10_Witness ==
    /\ processed
    /\ reports = 2
    /\ worrisome # {}
    /\ err = "none"

\* C9: when reading the input fails, at open() or at any line, processed
\* stays false, report() is not run, nothing is printed, and main() does
\* not return a status: the exception leaves it.
C9_IOFailureEndsWithoutReport ==
    err = "IOError" =>
        /\ pc = "raised"
        /\ ~processed
        /\ reports = 0
        /\ exit_code = None /\ exit_note = None
        /\ stdout = <<>>
        /\ ret = None

\* A read that fails after a worrisome line has been counted.
C9_Witness ==
    /\ err = "IOError"
    /\ pc = "raised"
    /\ worrisome # {}

\* C6 as claimed, for thresholds of at least 1 where given (a threshold
\* of 0 is met by a count of 0 under the precedence rule of C1): a scan
\* main() ran to its end over an input without any qualifying line is
\* reported Ok, with both counts zero.
C6_NoQualifyingLineIsOk ==
    (/\ processed
     /\ \A k \in ConsumedLines : ~Bounced[k].matched
     /\ \A t \in {warn, crit} : t # None => Val(t) >= 1) =>
        /\ blocked = {} /\ worrisome = {}
        /\ err = "none"
        /\ exit_code = Some(OK)
        /\ ret = Some(OK)
        /\ stdout = <<ContractNote("OK", 0, 0)>>

\* C7 as claimed: main() prints the help and returns Unknown, reading
\* nothing, exactly when neither --warn nor --crit is given; with either
\* given (0 included) it scans, reports, prints the note and returns the
\* report's exit code, unless reading the input fails.
C7_UsageExactlyWhenNoThreshold ==
    /\ (pc # "main" /\ warn = None /\ crit = None) =>
          (pc = "returned" /\ stdout = <<HelpText>> /\ ret = Some(UNKNOWN)
                           /\ consumed = <<>> /\ ~processed)
    /\ (pc # "main" /\ (warn # None \/ crit # None)) =>
          /\ stdout # <<HelpText>>
          /\ (pc \in {"returned", "raised"} /\ err # "IOError") =>
                /\ processed
                /\ reports = 1
                /\ exit_code # None
                /\ ret = exit_code
                /\ stdout = <<Val(exit_note)>>

=============================================================================
